---- MODULE Spec2Model ----
(***************************************************************************)
(* Model of src/lib.rs (crate to-absolute): to_absolute,                   *)
(* to_absolute_from_current_dir and the private canonicalize helper.       *)
(*                                                                         *)
(* A path is a record [prefix, root, segs]: the parsed form of a           *)
(* std::path::Path (optional prefix, physical root separator, the raw      *)
(* segments between separators).  The environment (platform, volumes,      *)
(* directory tree, working directory) is state chosen in Init.             *)
(***************************************************************************)
EXTENDS Naturals, Sequences, FiniteSets

\* ---------------------------------------------------------------- bounds
MaxCurLen == 2      \* segments of the `current` argument
MaxRelLen == 2      \* segments of the `relative` argument

\* ---------------------------------------------------------------- values
Names   == {"w", "s"}
SegSyms == {".", ".."} \cup Names
Letters == {"C", "Z"}

NoPrefix == [kind |-> "None", id |-> "-"]
Disk(l)         == [kind |-> "Disk", id |-> l]
VerbatimDisk(l) == [kind |-> "VerbatimDisk", id |-> l]
UNC             == [kind |-> "UNC", id |-> "net"]
VerbatimUNC     == [kind |-> "VerbatimUNC", id |-> "net"]
DeviceNS        == [kind |-> "DeviceNS", id |-> "dev"]
Verbatim        == [kind |-> "Verbatim", id |-> "dev"]
Unmounted       == [kind |-> "Unmounted", id |-> "-"]

MkPath(p, r, s) == [prefix |-> p, root |-> r, segs |-> s]
EmptyPath == MkPath(NoPrefix, FALSE, <<>>)
\* placeholder carried by an error outcome: no path at all
NoPath == MkPath([kind |-> "Absent", id |-> "-"], FALSE, <<>>)

SeqsUpTo(S, n) == UNION {[1..k -> S] : k \in 0..n}

\* Prefixes a caller can write for `current` / `relative` on Windows.
CurPrefixes == {NoPrefix, Disk("C"), Disk("Z"), VerbatimDisk("C"),
                UNC, VerbatimUNC, DeviceNS, Verbatim}
RelPrefixes == {NoPrefix, Disk("C")}

\* Only a drive prefix ("C:") can be followed by a rootless remainder ("C:w");
\* after any other prefix a segment is always preceded by a separator.
WellFormed(p) == (p.prefix.kind \notin {"None", "Disk"} /\ ~p.root) => p.segs = <<>>

InputPaths(plat, prefixes, n) ==
    {q \in {MkPath(p, r, s) : p \in (IF plat = "unix" THEN {NoPrefix} ELSE prefixes),
                              r \in BOOLEAN, s \in SeqsUpTo(SegSyms, n)} :
        WellFormed(q)}

\* ---------------------------------------------------------------- environment
Tree     == {<<>>, <<"w">>, <<"w", "s">>}
BareTree == {<<>>, <<"w">>}
\* symbolic link  <root>/s -> <root>/w/s
LinkAt   == <<"s">>
LinkTo   == <<"w", "s">>

\* What the canonicalization primitive reports as the prefix of each volume.
MountsVerbatim == [C |-> VerbatimDisk("C"), Z |-> VerbatimUNC,
                   net |-> VerbatimUNC, dev |-> Verbatim]
MountsPlain    == [C |-> Disk("C"), Z |-> Disk("Z"),
                   net |-> UNC, dev |-> DeviceNS]
MountsLocal    == [C |-> VerbatimDisk("C"), Z |-> VerbatimDisk("Z"),
                   net |-> VerbatimUNC, dev |-> Unmounted]
MountsUnix     == [C |-> NoPrefix, Z |-> NoPrefix, net |-> NoPrefix, dev |-> NoPrefix]

FsConfigs ==
    { [platform |-> "windows", mounts |-> MountsVerbatim, dirs |-> Tree,     link |-> TRUE,  cwd |-> <<"w">>],
      [platform |-> "windows", mounts |-> MountsPlain,    dirs |-> Tree,     link |-> FALSE, cwd |-> <<"w">>],
      [platform |-> "windows", mounts |-> MountsLocal,    dirs |-> BareTree, link |-> FALSE, cwd |-> <<>>],
      [platform |-> "unix",    mounts |-> MountsUnix,     dirs |-> Tree,     link |-> TRUE,  cwd |-> <<"w">>] }

VARIABLES
    platform,   \* "windows" | "unix": the target the crate is built for
    fs,         \* the environment: mounts, directories, symbolic link, working directory
    pc,         \* position of the call in progress
    entry,      \* which public function was called
    current,    \* argument `current` of to_absolute
    relative,   \* argument `relative`
    joined,     \* local `joined` of to_absolute
    result,     \* the value returned
    consumed,   \* components of the canonical path mapped by the closure
    fsCalls,    \* calls of fs::canonicalize made by the call in progress
    envReads,   \* calls of env::current_dir made by the call in progress
    cwdRes      \* what env::current_dir returned: "-" (not called), "ok", "err"

vars == <<platform, fs, pc, entry, current, relative, joined, result,
          consumed, fsCalls, envReads, cwdRes>>

\* ---------------------------------------------------------------- std::path
IsVerbatim(pre)      == pre.kind \in {"VerbatimDisk", "VerbatimUNC", "Verbatim"}
HasImplicitRoot(pre) == pre.kind \notin {"None", "Disk"}

has_root(p) == p.root \/ HasImplicitRoot(p.prefix)

\* Path::is_absolute: has_root() && (cfg!(unix) || prefix().is_some())
is_absolute(p) ==
    IF platform = "unix" THEN has_root(p)
    ELSE has_root(p) /\ p.prefix.kind # "None"

IsEmptyPath(p) == p.prefix.kind = "None" /\ ~p.root /\ p.segs = <<>>

\* PathBuf::push onto a verbatim base: `.` is dropped, `..` pops a preceding
\* normal segment, everything else is appended.
RECURSIVE VerbatimPush(_, _, _)
VerbatimPush(acc, segs, i) ==
    IF i > Len(segs) THEN acc
    ELSE IF segs[i] = "." THEN VerbatimPush(acc, segs, i + 1)
    ELSE IF segs[i] = ".." THEN
        IF acc # <<>> /\ acc[Len(acc)] \in Names
        THEN VerbatimPush(SubSeq(acc, 1, Len(acc) - 1), segs, i + 1)
        ELSE VerbatimPush(acc, segs, i + 1)
    ELSE VerbatimPush(Append(acc, segs[i]), segs, i + 1)

\* Path::join(base, p) = PathBuf::push
join(base, p) ==
    IF is_absolute(p) \/ p.prefix.kind # "None" THEN p
    ELSE IF platform = "windows" /\ IsVerbatim(base.prefix) /\ ~IsEmptyPath(p) THEN
        LET segs == VerbatimPush(IF p.root THEN <<>> ELSE base.segs, p.segs, 1)
        IN  MkPath(base.prefix, base.root \/ p.root \/ segs # <<>>, segs)
    ELSE IF p.root THEN MkPath(base.prefix, TRUE, p.segs)
    ELSE MkPath(base.prefix, base.root \/ HasImplicitRoot(base.prefix),
                base.segs \o p.segs)

\* Path::components
PrefixComp(pre) == [type |-> "Prefix",    prefix |-> pre,      name |-> "-"]
RootDirComp     == [type |-> "RootDir",   prefix |-> NoPrefix, name |-> "-"]
CurDirComp      == [type |-> "CurDir",    prefix |-> NoPrefix, name |-> "."]
ParentDirComp   == [type |-> "ParentDir", prefix |-> NoPrefix, name |-> ".."]
NormalComp(n)   == [type |-> "Normal",    prefix |-> NoPrefix, name |-> n]

RECURSIVE SegComps(_, _, _)
SegComps(segs, i, keepDot) ==
    IF i > Len(segs) THEN <<>>
    ELSE IF segs[i] = "."
         THEN (IF keepDot THEN <<CurDirComp>> ELSE <<>>) \o SegComps(segs, i + 1, keepDot)
    ELSE IF segs[i] = ".." THEN <<ParentDirComp>> \o SegComps(segs, i + 1, keepDot)
    ELSE <<NormalComp(segs[i])>> \o SegComps(segs, i + 1, keepDot)

components(p) ==
    (IF p.prefix.kind # "None" THEN <<PrefixComp(p.prefix)>> ELSE <<>>)
    \o (IF p.root \/ (HasImplicitRoot(p.prefix) /\ ~IsVerbatim(p.prefix))
        THEN <<RootDirComp>> ELSE <<>>)
    \o (IF p.prefix.kind = "None" /\ ~p.root /\ p.segs # <<>> /\ p.segs[1] = "."
        THEN <<CurDirComp>> \o SegComps(p.segs, 2, FALSE)
        ELSE SegComps(p.segs, 1, IsVerbatim(p.prefix)))

\* An OsString is a sequence of characters.
Sep == IF platform = "unix" THEN "/" ELSE "\\"

\* Component::as_os_str
as_os_str(c) ==
    CASE c.type = "RootDir"   -> <<Sep>>
      [] c.type = "CurDir"    -> <<".">>
      [] c.type = "ParentDir" -> <<".", ".">>
      [] c.type = "Normal"    -> <<c.name>>
      [] OTHER                -> <<"<prefix>">>

\* Path parsing of one OsString handed to PathBuf::push.
PathOfOsString(t) ==
    IF t = <<Sep>> THEN MkPath(NoPrefix, TRUE, <<>>)
    ELSE IF platform = "windows" /\ Len(t) = 2 /\ t[1] \in Letters /\ t[2] = ":"
         THEN MkPath(Disk(t[1]), FALSE, <<>>)
    ELSE IF t = <<".", ".">> THEN MkPath(NoPrefix, FALSE, <<"..">>)
    ELSE IF t = <<>> THEN EmptyPath
    ELSE MkPath(NoPrefix, FALSE, <<t[1]>>)

\* ---------------------------------------------------------------- environment primitives
MissingDir == <<"?">>

\* One directory lookup, following the symbolic link when the entry is one.
Lookup(d, n) ==
    LET e == Append(d, n)
    IN  IF e \in fs.dirs THEN e
        ELSE IF fs.link /\ e = LinkAt /\ LinkTo \in fs.dirs THEN LinkTo
        ELSE MissingDir

\* Walks segs from directory d.  physical = TRUE: `.` stays, `..` goes to the
\* parent of the directory reached (POSIX).  physical = FALSE: every segment
\* is looked up as a name (nothing is called `.` or `..`).
RECURSIVE Walk(_, _, _, _)
Walk(d, segs, i, physical) ==
    IF d = MissingDir \/ i > Len(segs) THEN d
    ELSE IF physical /\ segs[i] = "." THEN Walk(d, segs, i + 1, physical)
    ELSE IF physical /\ segs[i] = ".."
         THEN Walk(IF d = <<>> THEN d ELSE SubSeq(d, 1, Len(d) - 1), segs, i + 1, physical)
    ELSE Walk(Lookup(d, segs[i]), segs, i + 1, physical)

\* Win32 path normalisation, done on the text before the filesystem is asked:
\* `.` is dropped and `..` removes the segment before it (none at the root).
RECURSIVE LexicalNormalize(_, _, _)
LexicalNormalize(acc, segs, i) ==
    IF i > Len(segs) THEN acc
    ELSE IF segs[i] = "." THEN LexicalNormalize(acc, segs, i + 1)
    ELSE IF segs[i] = ".."
         THEN LexicalNormalize(IF acc = <<>> THEN acc ELSE SubSeq(acc, 1, Len(acc) - 1),
                               segs, i + 1)
    ELSE LexicalNormalize(Append(acc, segs[i]), segs, i + 1)

VolumeOf(pre) ==
    CASE pre.kind \in {"Disk", "VerbatimDisk"} -> pre.id
      [] pre.kind \in {"UNC", "VerbatimUNC"}   -> "net"
      [] pre.kind \in {"DeviceNS", "Verbatim"} -> "dev"
      [] OTHER                                 -> "C"

\* Segments a rootless path starts from: the working directory (of drive C).
StartSegs(p) ==
    IF has_root(p) THEN <<>>
    ELSE IF VolumeOf(p.prefix) = "C" THEN fs.cwd ELSE <<>>

IoOk(p)   == [ok |-> TRUE,  path |-> p,      err |-> "-"]
IoErr(e)  == [ok |-> FALSE, path |-> NoPath, err |-> e]

\* std::fs::canonicalize.  The empty path names nothing: it fails with
\* NotFound, it is not resolved as the working directory.
fs_canonicalize(p) ==
    LET mount == fs.mounts[VolumeOf(p.prefix)]
        segs  == StartSegs(p) \o p.segs
        real  == IF platform = "unix" THEN Walk(<<>>, segs, 1, TRUE)
                 ELSE IF IsVerbatim(p.prefix) THEN Walk(<<>>, segs, 1, FALSE)
                 ELSE Walk(<<>>, LexicalNormalize(<<>>, segs, 1), 1, FALSE)
    IN  IF IsEmptyPath(p) \/ mount.kind = "Unmounted" \/ real = MissingDir
        THEN IoErr("NotFound")
        ELSE IoOk(MkPath(mount, TRUE, real))

\* std::env::current_dir, when it succeeds
CwdPath == MkPath(IF platform = "unix" THEN NoPrefix ELSE Disk("C"), TRUE, fs.cwd)

\* ---------------------------------------------------------------- src/lib.rs
Ok(p)             == [kind |-> "Ok",                path |-> p,      io |-> "-"]
CurrentIsRelative == [kind |-> "CurrentIsRelative", path |-> NoPath, io |-> "-"]
UnsupportedPrefix == [kind |-> "UnsupportedPrefix", path |-> NoPath, io |-> "-"]
IoError(e)        == [kind |-> "IoError",           path |-> NoPath, io |-> e]
Pending           == [kind |-> "Pending",           path |-> NoPath, io |-> "-"]

\* Variant of from_io_error that drops the wrapped io::Error.
from_io_error_discarding(e) == IoError("-")

\* impl From<io::Error> for Error
from_io_error(e) == IoError(e)

\* Variant of encode_component whose match arm names Prefix::Disk only.
encode_component_disk_only(c) ==
    IF c.type = "Prefix" THEN
        IF c.prefix.kind = "Disk"
        THEN [ok |-> TRUE, os |-> <<c.prefix.id, ":">>]
        ELSE [ok |-> FALSE, os |-> <<>>]
    ELSE [ok |-> TRUE, os |-> as_os_str(c)]

\* The closure of canonicalize: one component to Ok(OsString) or Err.
encode_component(c) ==
    IF c.type = "Prefix" THEN
        IF c.prefix.kind \in {"Disk", "VerbatimDisk"}
        THEN [ok |-> TRUE, os |-> <<c.prefix.id, ":">>]
        ELSE [ok |-> FALSE, os |-> <<>>]
    ELSE [ok |-> TRUE, os |-> as_os_str(c)]

\* Variant of collect that maps every component before it looks at the errors.
RECURSIVE collect_exhaustive(_, _, _)
collect_exhaustive(comps, i, buf) ==
    IF i > Len(comps) THEN [res |-> Ok(buf), consumed |-> Len(comps)]
    ELSE LET e == encode_component(comps[i])
         IN  IF ~e.ok THEN [res |-> UnsupportedPrefix, consumed |-> Len(comps)]
             ELSE collect_exhaustive(comps, i + 1, join(buf, PathOfOsString(e.os)))

\* Variant of collect that leaves the root separator out of the result.
RECURSIVE collect_skipping_root(_, _, _)
collect_skipping_root(comps, i, buf) ==
    IF i > Len(comps) THEN [res |-> Ok(buf), consumed |-> Len(comps)]
    ELSE LET e == encode_component(comps[i])
         IN  IF ~e.ok THEN [res |-> UnsupportedPrefix, consumed |-> i]
             ELSE collect_skipping_root(comps, i + 1,
                      IF comps[i].type = "RootDir" THEN buf
                      ELSE join(buf, PathOfOsString(e.os)))

\* components.collect(): Result<PathBuf> from an iterator of results.  The first
\* Err ends the iteration and is the value; otherwise every OsString is pushed
\* onto the PathBuf in turn.  `consumed` counts the components the closure saw.
RECURSIVE collect(_, _, _)
collect(comps, i, buf) ==
    IF i > Len(comps) THEN [res |-> Ok(buf), consumed |-> Len(comps)]
    ELSE LET e == encode_component(comps[i])
         IN  IF ~e.ok THEN [res |-> UnsupportedPrefix, consumed |-> i]
             ELSE collect(comps, i + 1, join(buf, PathOfOsString(e.os)))

\* Variant of canonicalize that re-encodes the path it was given, without
\* asking the filesystem for the canonical form.
canonicalize_unresolved(path) == collect(components(path), 1, EmptyPath)

\* fn canonicalize(path)
canonicalize(path) ==
    LET c == fs_canonicalize(path)
    IN  IF ~c.ok THEN [res |-> from_io_error(c.err), consumed |-> 0]
        ELSE collect(components(c.path), 1, EmptyPath)

\* pub fn to_absolute(current, relative), as a function of the environment
to_absolute(cur, rel) ==
    IF is_absolute(rel) THEN Ok(rel)
    ELSE IF ~is_absolute(cur) THEN CurrentIsRelative
    ELSE canonicalize(join(cur, rel)).res

\* ---------------------------------------------------------------- the calls, step by step
Init ==
    /\ fs \in FsConfigs
    /\ platform = fs.platform
    /\ pc = "idle"
    /\ entry = "-"
    /\ current = EmptyPath
    /\ relative = EmptyPath
    /\ joined = NoPath
    /\ result = Pending
    /\ consumed = 0
    /\ fsCalls = 0
    /\ envReads = 0
    /\ cwdRes = "-"

\* A caller invokes to_absolute(c, r).
CallToAbsolute(c, r) ==
    /\ pc = "idle"
    /\ pc' = "check_relative"
    /\ entry' = "to_absolute"
    /\ current' = c
    /\ relative' = r
    /\ UNCHANGED <<platform, fs, joined, result, consumed, fsCalls, envReads, cwdRes>>

\* A caller invokes to_absolute_from_current_dir(r).
CallFromCurrentDir(r) ==
    /\ pc = "idle"
    /\ pc' = "current_dir"
    /\ entry' = "from_current_dir"
    /\ relative' = r
    /\ UNCHANGED <<platform, fs, current, joined, result, consumed, fsCalls, envReads, cwdRes>>

\* let current_dir = env::current_dir()?;   -- the read succeeds
CurrentDirOk ==
    /\ pc = "current_dir"
    /\ envReads' = envReads + 1
    /\ cwdRes' = "ok"
    /\ current' = CwdPath
    /\ pc' = "check_relative"
    /\ UNCHANGED <<platform, fs, entry, relative, joined, result, consumed, fsCalls>>

\* Variant of CurrentDirErr that goes on with an empty base instead of returning.
CurrentDirErr_ignored ==
    /\ pc = "current_dir"
    /\ envReads' = envReads + 1
    /\ cwdRes' = "err"
    /\ current' = EmptyPath
    /\ pc' = "check_relative"
    /\ UNCHANGED <<platform, fs, entry, relative, joined, result, consumed, fsCalls>>

\* let current_dir = env::current_dir()?;   -- the read fails, `?` returns
CurrentDirErr ==
    /\ pc = "current_dir"
    /\ envReads' = envReads + 1
    /\ cwdRes' = "err"
    /\ result' = from_io_error("CwdUnavailable")
    /\ pc' = "done"
    /\ UNCHANGED <<platform, fs, entry, current, relative, joined, consumed, fsCalls>>

\* Variant of CheckRelative without the early return.
CheckRelative_NoFastPath ==
    /\ pc = "check_relative"
    /\ pc' = "check_current"
    /\ UNCHANGED <<platform, fs, entry, current, relative, joined, result, consumed,
                   fsCalls, envReads, cwdRes>>

\* if relative.is_absolute() { return Ok(relative.to_path_buf()); }
CheckRelative ==
    /\ pc = "check_relative"
    /\ IF is_absolute(relative)
       THEN result' = Ok(relative) /\ pc' = "done"
       ELSE result' = result /\ pc' = "check_current"
    /\ UNCHANGED <<platform, fs, entry, current, relative, joined, consumed, fsCalls, envReads, cwdRes>>

\* Variant of CheckCurrent that lets every base through.
CheckCurrent_Unchecked ==
    /\ pc = "check_current"
    /\ pc' = "join"
    /\ UNCHANGED <<platform, fs, entry, current, relative, joined, result, consumed,
                   fsCalls, envReads, cwdRes>>

\* if !current.is_absolute() { return Err(Error::CurrentIsRelative); }
CheckCurrent ==
    /\ pc = "check_current"
    /\ IF ~is_absolute(current)
       THEN result' = CurrentIsRelative /\ pc' = "done"
       ELSE result' = result /\ pc' = "join"
    /\ UNCHANGED <<platform, fs, entry, current, relative, joined, consumed, fsCalls, envReads, cwdRes>>

\* Variant of Join that also asks the filesystem about the joined path.
Join_probing ==
    /\ pc = "join"
    /\ joined' = join(current, relative)
    /\ fsCalls' = fsCalls + 1
    /\ pc' = "canonicalize"
    /\ UNCHANGED <<platform, fs, entry, current, relative, result, consumed, envReads, cwdRes>>

\* let joined = current.join(relative);
Join ==
    /\ pc = "join"
    /\ joined' = join(current, relative)
    /\ pc' = "canonicalize"
    /\ UNCHANGED <<platform, fs, entry, current, relative, result, consumed, fsCalls, envReads, cwdRes>>

\* canonicalize(joined): the one filesystem query, the component walk, collect
Canonicalize ==
    /\ pc = "canonicalize"
    /\ fsCalls' = fsCalls + 1
    /\ LET r == canonicalize(joined)
       IN  result' = r.res /\ consumed' = r.consumed
    /\ pc' = "done"
    /\ UNCHANGED <<platform, fs, entry, current, relative, joined, envReads, cwdRes>>

\* The call has returned; the next call starts from fresh locals.
Return ==
    /\ pc = "done"
    /\ pc' = "idle"
    /\ entry' = "-"
    /\ current' = EmptyPath
    /\ relative' = EmptyPath
    /\ joined' = NoPath
    /\ result' = Pending
    /\ consumed' = 0
    /\ fsCalls' = 0
    /\ envReads' = 0
    /\ cwdRes' = "-"
    /\ UNCHANGED <<platform, fs>>

Next ==
    \/ /\ pc = "idle"
       /\ \E c \in InputPaths(platform, CurPrefixes, MaxCurLen),
             r \in InputPaths(platform, RelPrefixes, MaxRelLen) : CallToAbsolute(c, r)
    \/ /\ pc = "idle"
       /\ \E r \in InputPaths(platform, RelPrefixes, MaxRelLen) : CallFromCurrentDir(r)
    \/ CurrentDirOk
    \/ CurrentDirErr
    \/ CheckRelative
    \/ CheckCurrent
    \/ Join
    \/ Canonicalize
    \/ Return

Spec == Init /\ [][Next]_vars

\* ---------------------------------------------------------------- properties
Done       == pc = "done"
Returned   == Done /\ cwdRes # "err"     \* a call of to_absolute has returned
Joined     == join(current, relative)
CanonOf(p) == fs_canonicalize(p)
Supported(pre) == pre.kind \in {"Disk", "VerbatimDisk"}
NoDots(segs)   == \A i \in 1..Len(segs) : segs[i] \notin {".", ".."}
HasDotDot(segs) == \E i \in 1..Len(segs) : segs[i] = ".."

\* The directory a non-verbatim Windows path denotes: `.` dropped, each `..`
\* cancelling the segment before it, then the links on the way followed.
Denoted(p) == Walk(<<>>, LexicalNormalize(<<>>, StartSegs(p) \o p.segs, 1), 1, FALSE)

OnDiskRoot(p) == platform = "windows" /\ p.prefix.kind = "Disk" /\ p.root

\* C1: with an absolute `relative`, to_absolute returns Ok(relative) unchanged
\* for every `current`, without join, filesystem query or component walk.
C1_AbsoluteFastPath ==
    (Returned /\ is_absolute(relative)) =>
        /\ result = Ok(relative)
        /\ joined = NoPath
        /\ fsCalls = 0
        /\ consumed = 0

C1_Witness ==
    /\ Returned /\ entry = "to_absolute"
    /\ is_absolute(relative) /\ ~is_absolute(current)
    /\ ~CanonOf(relative).ok
    /\ result = Ok(relative)

\* C2: a relative `current` with a relative `relative` gives CurrentIsRelative,
\* whether or not the joined path exists.
C2_RelativeBaseRejected ==
    (Returned /\ ~is_absolute(relative) /\ ~is_absolute(current)) =>
        result = CurrentIsRelative /\ fsCalls = 0

C2_Witness ==
    /\ Returned /\ ~is_absolute(relative) /\ ~is_absolute(current)
    /\ CanonOf(Joined).ok
    /\ result = CurrentIsRelative

\* What C3 promises of the result for a base on a disk root.
C3_Resolves ==
    /\ result.kind = "Ok"
    /\ result.path = MkPath(Disk(CanonOf(Joined).path.prefix.id), TRUE, Denoted(Joined))
    /\ is_absolute(result.path)
    /\ NoDots(result.path.segs)
    /\ result.path.segs \in fs.dirs

\* C3 as stated: for an absolute `current` on a disk root and a relative
\* `relative` whose join exists, the result is Ok of the canonical path of the
\* join, free of `.` and `..`, each `..` cancelling the segment before it.
C3_AsStated ==
    (Returned /\ OnDiskRoot(current) /\ ~is_absolute(relative) /\ CanonOf(Joined).ok)
        => C3_Resolves

\* C3 amended: the same, when the canonical path reported by the filesystem has
\* a Disk or VerbatimDisk prefix; with any other prefix kind (a drive mapped to
\* a network share) the call fails with UnsupportedPrefix.
C3_ResolvedWhenSupported ==
    (Returned /\ OnDiskRoot(current) /\ ~is_absolute(relative) /\ CanonOf(Joined).ok) =>
        IF Supported(CanonOf(Joined).path.prefix)
        THEN C3_Resolves
        ELSE result = UnsupportedPrefix

C3_Witness ==
    /\ Returned /\ OnDiskRoot(current) /\ ~is_absolute(relative)
    /\ HasDotDot(current.segs) /\ HasDotDot(relative.segs)
    /\ result.kind = "Ok"
    /\ result.path.segs # <<>>

\* C4: with a base of UNC, device or verbatim prefix form (the verbatim-disk
\* form included), a relative `relative` of plain named segments and an
\* existing target, to_absolute fails with UnsupportedPrefix.  Stated for
\* filesystems that report canonical paths in verbatim form, as Windows does.
C4_SpecialBaseRejected ==
    (Returned /\ platform = "windows"
        /\ current.prefix.kind \in {"UNC", "DeviceNS", "VerbatimUNC", "Verbatim", "VerbatimDisk"}
        /\ relative.prefix.kind = "None" /\ ~is_absolute(relative)
        /\ relative.segs # <<>> /\ NoDots(relative.segs)
        /\ CanonOf(Joined).ok
        /\ IsVerbatim(CanonOf(Joined).path.prefix))
    => result = UnsupportedPrefix

\* C5: with an absolute `current` and a relative `relative` whose join the
\* filesystem cannot canonicalize, the result is IoError wrapping that error.
C5_MissingIsIoError ==
    (Returned /\ is_absolute(current) /\ ~is_absolute(relative) /\ ~CanonOf(Joined).ok) =>
        /\ result = IoError(CanonOf(Joined).err)
        /\ result.io # "-"
        /\ fsCalls = 1

C5_Witness ==
    /\ Returned /\ OnDiskRoot(current) /\ ~is_absolute(relative)
    /\ ~CanonOf(Joined).ok
    /\ result.kind = "IoError"

\* C6: a canonical Disk or VerbatimDisk prefix comes out as "<letter>:" with
\* the letter the filesystem reported, any other prefix kind fails the call
\* with UnsupportedPrefix, and no Ok result carries another prefix form.
C6_PrefixReencoded ==
    (Returned /\ fsCalls = 1 /\ CanonOf(joined).ok) =>
        LET pre == CanonOf(joined).path.prefix
        IN  /\ Supported(pre) =>
                /\ result.kind = "Ok"
                /\ result.path.prefix = Disk(pre.id)
                /\ components(result.path)[1] = PrefixComp(Disk(pre.id))
            /\ (pre.kind \in {"UNC", "DeviceNS", "VerbatimUNC", "Verbatim"}) =>
                result = UnsupportedPrefix
            /\ result.kind = "Ok" => result.path.prefix.kind \in {"None", "Disk"}

C6_Witness ==
    /\ Returned /\ fsCalls = 1
    /\ CanonOf(joined).ok
    /\ CanonOf(joined).path.prefix = VerbatimDisk("Z")
    /\ result.kind = "Ok"
    /\ result.path.prefix = Disk("Z")

\* C7: a call ends in exactly one of Ok, CurrentIsRelative, UnsupportedPrefix,
\* IoError; only Ok carries a path; an unsupported prefix stops the component
\* walk at the prefix.
C7_OneOutcome ==
    Done =>
        /\ result.kind \in {"Ok", "CurrentIsRelative", "UnsupportedPrefix", "IoError"}
        /\ (result.kind = "Ok") = (result.path # NoPath)
        /\ (result.kind = "IoError") = (result.io # "-")
        /\ result.kind = "UnsupportedPrefix" =>
            /\ consumed = 1
            /\ components(CanonOf(joined).path)[1].type = "Prefix"
            /\ Len(components(CanonOf(joined).path)) > consumed
        /\ result.kind \in {"CurrentIsRelative", "IoError"} => consumed = 0

C7_Witness ==
    /\ Done
    /\ result = UnsupportedPrefix
    /\ consumed = 1
    /\ Len(components(CanonOf(joined).path)) >= 3

\* C8: to_absolute_from_current_dir reads the working directory first; a
\* failed read gives IoError for every `relative`, a successful one gives
\* to_absolute(cwd, relative); to_absolute never reads the environment.
C8_FromCurrentDir ==
    /\ entry = "to_absolute" => envReads = 0 /\ cwdRes = "-"
    /\ (entry = "from_current_dir" /\ pc # "current_dir") => envReads = 1 /\ cwdRes # "-"
    /\ (entry = "from_current_dir" /\ pc = "current_dir") => envReads = 0
    /\ (entry = "from_current_dir" /\ Done /\ cwdRes = "err") =>
            result.kind = "IoError" /\ fsCalls = 0
    /\ (entry = "from_current_dir" /\ Done /\ cwdRes = "ok") =>
            current = CwdPath /\ result = to_absolute(CwdPath, relative)

C8_Witness ==
    /\ entry = "from_current_dir" /\ Done
    /\ cwdRes = "err"
    /\ is_absolute(relative)
    /\ result.kind = "IoError"

\* C9: on success the output has one component per canonical component, in
\* the same order: the prefix re-encoded, every other component unchanged.
C9_ComponentsPreserved ==
    (Returned /\ fsCalls = 1 /\ result.kind = "Ok") =>
        LET cc == components(CanonOf(joined).path)
            oc == components(result.path)
        IN  /\ Len(oc) = Len(cc)
            /\ consumed = Len(cc)
            /\ \A i \in 1..Len(cc) :
                  IF cc[i].type = "Prefix"
                  THEN oc[i] = PrefixComp(Disk(cc[i].prefix.id))
                  ELSE oc[i] = cc[i]

C9_Witness ==
    /\ Returned /\ fsCalls = 1 /\ result.kind = "Ok"
    /\ components(CanonOf(joined).path) =
          <<PrefixComp(VerbatimDisk("C")), RootDirComp, NormalComp("w"), NormalComp("s")>>
    /\ components(result.path) =
          <<PrefixComp(Disk("C")), RootDirComp, NormalComp("w"), NormalComp("s")>>

C10_State ==
    /\ fsCalls <= 1
    /\ pc \in {"idle", "current_dir", "check_relative", "check_current", "join", "canonicalize"}
          => fsCalls = 0
    /\ (Returned /\ (is_absolute(relative) \/ result = CurrentIsRelative)) => fsCalls = 0
    /\ (Done /\ fsCalls = 1) => ~is_absolute(relative) /\ is_absolute(current)

\* C10: a call queries the filesystem at most once, never before both
\* absoluteness checks have passed, not at all on the fast path or with
\* CurrentIsRelative, and it leaves the filesystem as it found it.
C10_AtMostOneQuery == [](C10_State) /\ [][fs' = fs]_vars

C10_Witness ==
    /\ Done /\ fsCalls = 1
    /\ ~is_absolute(relative) /\ is_absolute(current)

====
